---- MODULE Spec2Model ----
(***************************************************************************)
(* Model of src/app.py: the OTP- and password-gated room application.      *)
(* The persisted state is the credential table (ROOMS_FILE), the OTP table *)
(* (OTP_FILE) and one directory per room holding chat.txt and the uploaded *)
(* files.  Every browser session owns a st.session_state; every click      *)
(* re-runs the script from the top, which is one handler run here.         *)
(***************************************************************************)
EXTENDS Integers, Sequences, FiniteSets, TLC

VARIABLES
    now,                  \* time.time() / datetime.now(), in seconds
    ticks,                \* how often the clock has advanced
    steps,                \* how many runs of the login portal have started
    runs,                 \* how many runs of the room page have started
    otp_cache,            \* the dict stored in OTP_FILE
    room_passwords_file,  \* the dict stored in ROOMS_FILE
    dirs,                 \* the room directories under secure_rooms/
    files,                \* per room name, the folder's files
    session_state,        \* per session, st.session_state
    pc,                   \* per session, where its login run stands
    loc,                  \* per session, the local variables of its login run
    last,                 \* what the latest handler run did and reported
    sent,                 \* per username, the code generate_otp returned last
    created_with          \* per room, the password typed when it was created

vars == <<now, ticks, steps, runs, otp_cache, room_passwords_file, dirs, files,
          session_state, pc, loc, last, sent, created_with>>

----------------------------------------------------------------------------
(* Bounds of the model *)

MaxTicks == 2

MaxSteps == 3

MaxRuns == 2

MaxSweepRuns == 3

MaxLines == 2

(* Program constants *)

AUTO_DELETE_HOURS == 12

OTP_VALID_SECONDS == 300

OTP_MIN == 100000

OTP_MAX == 999999

SECONDS_PER_HOUR == 3600

SECONDS_PER_MINUTE == 60

----------------------------------------------------------------------------
(* Input domains *)

Sessions == {1, 2}

Users == {"alice", "bob"}

Rooms == {"teamroom", "lab"}

Passwords == {"secret1", "wrong"}

CHAT_TXT == "chat.txt"

\* the codes random.randint(100000, 999999) may return, cut to the two ends
OtpCodes == {OTP_MIN, OTP_MAX}

\* chat messages typed into the form, as character sequences
Messages == {<<"A">>, <<" ", "B">>}

----------------------------------------------------------------------------
(* Pure helpers *)

RECURSIVE str(_)
\* str(n) of a non-negative int: its decimal digits, most significant first
str(n) == IF n < 10 THEN <<n>> ELSE Append(str(n \div 10), n % 10)

\* hashlib.sha256(...).hexdigest(): one digest per password, no collisions
hash_pw(password) == <<"sha256", password>>

\* a comparison that accepts every password
check_password_any(password, hashed) == hashed = hashed

check_password(password, hashed) == hash_pw(password) = hashed

\* a generate_otp that keeps the record a user already has
generate_otp_keep(data, username, code, t) ==
    [k \in DOMAIN data \cup {username} |->
        IF k \in DOMAIN data THEN data[k] ELSE [otp |-> str(code), timestamp |-> t]]

\* the dict generate_otp saves: data[username] = {"otp":..., "timestamp":...}
generate_otp(data, username, code, t) ==
    [k \in DOMAIN data \cup {username} |->
        IF k = username THEN [otp |-> str(code), timestamp |-> t] ELSE data[k]]

\* a validation that forgets to compare the code
validate_otp_any_code(data, t, username, input_otp) ==
    IF username \in DOMAIN data
    THEN IF t - data[username].timestamp > OTP_VALID_SECONDS THEN FALSE ELSE TRUE
    ELSE FALSE

\* a validation that expires the code one second early
validate_otp_early(data, t, username, input_otp) ==
    IF username \in DOMAIN data
    THEN IF t - data[username].timestamp >= OTP_VALID_SECONDS
         THEN FALSE
         ELSE data[username].otp = input_otp
    ELSE FALSE

validate_otp(data, t, username, input_otp) ==
    IF username \in DOMAIN data
    THEN IF t - data[username].timestamp > OTP_VALID_SECONDS
         THEN FALSE
         ELSE data[username].otp = input_otp
    ELSE FALSE

\* a validation that deletes the record of a code it has accepted
otps_after_validate_once(data, t, username, input_otp) ==
    IF validate_otp(data, t, username, input_otp)
    THEN [k \in DOMAIN data \ {username} |-> data[k]]
    ELSE data

\* the table validate_otp leaves in OTP_FILE: line 52 loads it, and no line
\* of validate_otp saves or changes it
otps_after_validate(data, t, username, input_otp) == data

RECURSIVE lstrip(_)
lstrip(m) == IF m # <<>> /\ Head(m) = " " THEN lstrip(Tail(m)) ELSE m

RECURSIVE rstrip(_)
rstrip(m) == IF m # <<>> /\ m[Len(m)] = " " THEN rstrip(SubSeq(m, 1, Len(m) - 1)) ELSE m

\* str.strip()
strip(m) == rstrip(lstrip(m))

\* datetime.now().strftime("%Y-%m-%d %H:%M"): the time cut to the minute
strftime_minute(t) == t \div SECONDS_PER_MINUTE

\* one line of chat.txt: f"[{timestamp}] {username}: {message.strip()}\n"
chat_line(t, username, message) ==
    [timestamp |-> strftime_minute(t), username |-> username, text |-> strip(message)]

\* the bytes of an uploaded file, as the one chunk f.write(uploaded_file.read()) writes
upload_bytes(d) == <<[bytes |-> d]>>

\* a folder is the function from the names os.listdir returns to the files
EmptyFolder == [n \in {} |-> 0]

\* open(path, "w"/"wb") and write: the file gets new content and mtime
write_file(folder, name, content, t) ==
    [n \in DOMAIN folder \cup {name} |->
        IF n = name THEN [mtime |-> t, content |-> content] ELSE folder[n]]

\* os.remove of every name in gone
remove_files(folder, gone) == [n \in DOMAIN folder \ gone |-> folder[n]]

\* lines 124-126: chat.txt is created empty when it does not exist
ensure_chat_file(folder, t) ==
    IF CHAT_TXT \in DOMAIN folder THEN folder ELSE write_file(folder, CHAT_TXT, <<>>, t)

\* a sweep that removes files from the age of 12 hours on
expired_files_from_12h(folder, t) ==
    {fname \in DOMAIN folder :
        /\ fname # CHAT_TXT
        /\ t - folder[fname].mtime >= AUTO_DELETE_HOURS * SECONDS_PER_HOUR}

\* a sweep that removes one stale file per run
expired_files_one(folder, t) ==
    LET stale == {fname \in DOMAIN folder :
                    /\ fname # CHAT_TXT
                    /\ t - folder[fname].mtime > AUTO_DELETE_HOURS * SECONDS_PER_HOUR}
    IN  IF stale = {} THEN {} ELSE {CHOOSE fname \in stale : TRUE}

\* the files cleanup_old_files removes
expired_files(folder, t) ==
    {fname \in DOMAIN folder :
        /\ fname # CHAT_TXT
        /\ t - folder[fname].mtime > AUTO_DELETE_HOURS * SECONDS_PER_HOUR}

cleanup_old_files(folder, t) == remove_files(folder, expired_files(folder, t))

NoUpload == [name |-> "", data |-> ""]

\* the files a client picks: x.txt with two contents, y.txt, and a file that
\* has the transcript's own name
Uploads == [name : {"x.txt"}, data : {"data1", "data2"}]
           \cup [name : {"y.txt", CHAT_TXT}, data : {"data1"}]

\* an upload that keeps the file a name already has
upload_section_new_only(folder, upl, t) ==
    IF upl # NoUpload /\ upl.name \notin DOMAIN folder
    THEN write_file(folder, upl.name, upload_bytes(upl.data), t)
    ELSE folder

\* lines 141-145
upload_section(folder, upl, t) ==
    IF upl # NoUpload THEN write_file(folder, upl.name, upload_bytes(upl.data), t) ELSE folder

\* line 149
listed_files(folder) == {f \in DOMAIN folder : f # CHAT_TXT}

\* lines 190-193: open(chat_file, "a") and write one line
chat_section(folder, trig, username, message, t) ==
    IF trig = "send" /\ strip(message) # <<>>
    THEN write_file(folder, CHAT_TXT,
                    Append(folder[CHAT_TXT].content, chat_line(t, username, message)), t)
    ELSE folder

\* room settings whose "Clear chat log" removes the files as well
admin_section_clear_all(folder, trig, listing, t) ==
    IF trig = "clear_files" THEN remove_files(folder, listing)
    ELSE IF trig = "clear_chat"
         THEN write_file(remove_files(folder, listing), CHAT_TXT, <<>>, t)
    ELSE folder

\* lines 200-207: `files` is the listing taken at line 149
admin_section(folder, trig, listing, t) ==
    IF trig = "clear_files" THEN remove_files(folder, listing)
    ELSE IF trig = "clear_chat" THEN write_file(folder, CHAT_TXT, <<>>, t)
    ELSE folder

\* lines 119-207, one run of the room page for the room's folder
room_page(folder, trig, upl, username, message, t) ==
    LET f1 == ensure_chat_file(folder, t)
        f2 == cleanup_old_files(f1, t)
        f3 == upload_section(f2, upl, t)
        f4 == chat_section(f3, trig, username, message, t)
    IN  admin_section(f4, trig, listed_files(f3), t)

\* the content open(save_path, "wb") at line 143 truncates: that of the file
\* the upload's name has when the run reaches the upload, if it has one
truncated_by_upload(folder, upl, t) ==
    LET f2 == cleanup_old_files(ensure_chat_file(folder, t), t)
    IN  IF upl # NoUpload /\ upl.name \in DOMAIN f2 THEN f2[upl.name].content ELSE <<>>

\* the content open(chat_file, "w") at line 206 truncates: that of chat.txt
\* when the run reaches the button
truncated_by_clear(folder, upl, t) ==
    LET f3 == upload_section(cleanup_old_files(ensure_chat_file(folder, t), t), upl, t)
    IN  f3[CHAT_TXT].content

\* lines 70-72: a fresh st.session_state
FreshSession == [authenticated |-> FALSE, username |-> "", room |-> ""]

\* a logout that resets the flag and keeps the username and the room
logout_section_flag_only(state, trig) ==
    IF trig = "logout" THEN [state EXCEPT !.authenticated = FALSE] ELSE state

\* lines 210-213: st.session_state.clear(); the next run initialises it anew
logout_section(state, trig) == IF trig = "logout" THEN FreshSession ELSE state

Transcript(r) == IF CHAT_TXT \in DOMAIN files[r] THEN files[r][CHAT_TXT].content ELSE <<>>

\* lines 107-108: the table with the new room's hash added
with_room(room_passwords, room, password) ==
    [r \in DOMAIN room_passwords \cup {room} |->
        IF r = room THEN hash_pw(password) ELSE room_passwords[r]]

\* a check that skips the OTP
portal_check_no_otp(otps, t, username, room, password, otp_input) ==
    IF username = "" \/ room = "" \/ password = "" \/ otp_input = <<>>
    THEN "required"
    ELSE "ok"

\* a check that lets an empty password through
portal_check_no_password(otps, t, username, room, password, otp_input) ==
    IF username = "" \/ room = "" \/ otp_input = <<>>
    THEN "required"
    ELSE IF ~validate_otp(otps, t, username, otp_input) THEN "bad_otp" ELSE "ok"

\* lines 90-96: the required fields, then the OTP
portal_check(otps, t, username, room, password, otp_input) ==
    IF username = "" \/ room = "" \/ password = "" \/ otp_input = <<>>
    THEN "required"
    ELSE IF ~validate_otp(otps, t, username, otp_input) THEN "bad_otp" ELSE "ok"

\* lines 90-96: the OTP table after the checks; validate_otp is called only
\* when no required field is empty
portal_otps(otps, t, username, room, password, otp_input) ==
    IF username = "" \/ room = "" \/ password = "" \/ otp_input = <<>>
    THEN otps
    ELSE otps_after_validate(otps, t, username, otp_input)

\* lines 102-109: verify the password of a known room, or create the room
room_check(room_passwords, room, password) ==
    IF room \in DOMAIN room_passwords
    THEN IF ~check_password(password, room_passwords[room])
         THEN "bad_password" ELSE "verified"
    ELSE "created"

\* lines 90-109 in one go
login_outcome(otps, room_passwords, t, username, room, password, otp_input) ==
    IF portal_check(otps, t, username, room, password, otp_input) # "ok"
    THEN portal_check(otps, t, username, room, password, otp_input)
    ELSE room_check(room_passwords, room, password)

\* the record of one step: who ran what, what the page reported (st.warning /
\* st.error / st.success), on which room's folder the room page ran, which
\* files its sweep removed, which code an OTP request replaced or which
\* content an upload or a clear of the chat log replaced, and the room
\* and the removed files of the step just before (a clock advance and a run
\* that did not reach the room page have room "" and removed nothing)
Ran(s, op, outcome, room, evicted, replaced) ==
    [session |-> s, op |-> op, outcome |-> outcome, room |-> room,
     evicted |-> evicted, replaced |-> replaced,
     prev_room |-> last.room, prev_evicted |-> last.evicted]

NoTable == [k \in {} |-> 0]

IdleLocals == [username |-> "", room |-> "", password |-> "",
               room_passwords |-> NoTable, outcome |-> ""]

----------------------------------------------------------------------------
(* State after start-up: secure_rooms/ exists and is empty, no session yet *)

Init ==
    /\ now = 0
    /\ ticks = 0
    /\ steps = 0
    /\ runs = 0
    /\ otp_cache = NoTable
    /\ room_passwords_file = NoTable
    /\ dirs = {}
    /\ files = [r \in Rooms |-> EmptyFolder]
    /\ session_state = [s \in Sessions |-> FreshSession]
    /\ pc = [s \in Sessions |-> "idle"]
    /\ loc = [s \in Sessions |-> IdleLocals]
    /\ last = [session |-> 0, op |-> "start", outcome |-> "", room |-> "",
               evicted |-> {}, replaced |-> <<>>, prev_room |-> "",
               prev_evicted |-> {}]
    /\ sent = NoTable
    /\ created_with = NoTable

\* time passes between two steps
Tick(d) ==
    /\ ticks < MaxTicks
    /\ now' = now + d
    /\ ticks' = ticks + 1
    /\ last' = Ran(0, "tick", "", "", {}, <<>>)
    /\ UNCHANGED <<steps, runs, otp_cache, room_passwords_file, dirs, files,
                   session_state, pc, loc, sent, created_with>>

\* lines 81-84 and 115-116: the "Request OTP" click on the login portal
RequestOtp(s, username, code) ==
    /\ steps < MaxSteps
    /\ pc[s] = "idle"
    /\ ~session_state[s].authenticated
    /\ steps' = steps + 1
    /\ otp_cache' = generate_otp(otp_cache, username, code, now)
    /\ sent' = [u \in DOMAIN sent \cup {username} |->
                   IF u = username THEN [otp |-> str(code), at |-> now] ELSE sent[u]]
    /\ last' = Ran(s, "request_otp", "otp_sent", "", {},
                   IF username \in DOMAIN sent THEN sent[username].otp ELSE <<>>)
    /\ UNCHANGED <<now, ticks, runs, room_passwords_file, dirs, files,
                   session_state, pc, loc, created_with>>

\* lines 111-113 and the first run of the room page (119-213) that follows
EnterRoom(s, username, room, outcome) ==
    /\ session_state' = [session_state EXCEPT ![s] =
           [authenticated |-> TRUE, username |-> username, room |-> room]]
    /\ dirs' = dirs \cup {room}
    /\ files' = [files EXCEPT ![room] =
           room_page(files[room], "none", NoUpload, username, <<>>, now)]
    /\ last' = Ran(s, "login", outcome, room,
                   expired_files(ensure_chat_file(files[room], now), now), <<>>)

\* lines 89-116 and, on success, 119-213: the "Login / Create Room" click
Login(s, username, room, password, otp_input) ==
    LET outcome == login_outcome(otp_cache, room_passwords_file, now,
                                 username, room, password, otp_input)
    IN  /\ steps < MaxSteps
        /\ pc[s] = "idle"
        /\ ~session_state[s].authenticated
        /\ steps' = steps + 1
        /\ otp_cache' = portal_otps(otp_cache, now, username, room, password, otp_input)
        /\ UNCHANGED <<now, ticks, runs, pc, loc, sent>>
        /\ IF outcome = "created"
           THEN /\ room_passwords_file' = with_room(room_passwords_file, room, password)
                /\ created_with' = [r \in DOMAIN created_with \cup {room} |->
                                       IF r = room THEN password ELSE created_with[r]]
           ELSE UNCHANGED <<room_passwords_file, created_with>>
        /\ IF outcome \in {"created", "verified"}
           THEN EnterRoom(s, username, room, outcome)
           ELSE /\ dirs' = IF outcome = "bad_password" THEN dirs \cup {room} ELSE dirs
                /\ last' = Ran(s, "login", outcome, "", {}, <<>>)
                /\ UNCHANGED <<files, session_state>>

\* lines 119-213: one run of the script for an authenticated session; trig is
\* the button clicked, upl the file held by the uploader, message the form text
Rerun(s, trig, upl, message) ==
    LET room == session_state[s].room
        username == session_state[s].username
    IN  /\ session_state[s].authenticated
        /\ trig = "send" /\ strip(message) # <<>> => Len(Transcript(room)) < MaxLines
        /\ runs' = runs + 1
        /\ dirs' = dirs \cup {room}
        /\ files' = [files EXCEPT ![room] =
               room_page(files[room], trig, upl, username, message, now)]
        /\ last' = Ran(s, trig, IF upl = NoUpload THEN "" ELSE "uploaded", room,
                       expired_files(ensure_chat_file(files[room], now), now),
                       IF trig = "clear_chat"
                       THEN truncated_by_clear(files[room], upl, now)
                       ELSE truncated_by_upload(files[room], upl, now))
        /\ session_state' = [session_state EXCEPT
                                ![s] = logout_section(session_state[s], trig)]
        /\ UNCHANGED <<now, ticks, steps, otp_cache, room_passwords_file, pc, loc,
                       sent, created_with>>

Refresh(s, upl) == Rerun(s, "refresh", upl, <<>>)

SendMessage(s, upl, message) == Rerun(s, "send", upl, message)

ClearFiles(s, upl) == Rerun(s, "clear_files", upl, <<>>)

ClearChat(s, upl) == Rerun(s, "clear_chat", upl, <<>>)

Logout(s, upl) == Rerun(s, "logout", upl, <<>>)

UploaderStates == Uploads \cup {NoUpload}

\* the OTP input that spells a code
Typed(code) == str(code)

\* login forms with every field filled in
FullForms(users, rooms, passwords, codes) ==
    [username : users, room : rooms, password : passwords,
     otp_input : {Typed(c) : c \in codes}]

\* a form with one required field left empty
Blanked(f) ==
    {[f EXCEPT !.username = ""], [f EXCEPT !.room = ""],
     [f EXCEPT !.password = ""], [f EXCEPT !.otp_input = <<>>]}

LoginForm(s, f) == Login(s, f.username, f.room, f.password, f.otp_input)

----------------------------------------------------------------------------
(* The login protocol: both users, both codes and both passwords on one     *)
(* room name, forms with a field left empty, the clock around the OTP       *)
(* window once a code has been issued (no step reads the clock before),     *)
(* and a room page that is only left.                                       *)

AuthTicks == {1, OTP_VALID_SECONDS}

AuthForms ==
    FullForms(Users, {"teamroom"}, Passwords, OtpCodes)
    \cup Blanked([username |-> "alice", room |-> "teamroom",
                  password |-> "secret1", otp_input |-> Typed(OTP_MIN)])

Next ==
    \/ \E d \in AuthTicks : DOMAIN otp_cache # {} /\ Tick(d)
    \/ \E s \in Sessions, u \in Users, c \in OtpCodes : RequestOtp(s, u, c)
    \/ \E s \in Sessions, f \in AuthForms : LoginForm(s, f)
    \/ \E s \in Sessions : runs < MaxRuns /\ Logout(s, NoUpload)

Spec == Init /\ [][Next]_vars

----------------------------------------------------------------------------
(* The room page: two sessions in two rooms, messages and buttons of both,  *)
(* the uploader of session 1, and the clock around the retention age once a *)
(* room is open.  The logins are those that pass: alice, one code, one      *)
(* password.                                                                *)

RoomTicks == {1, AUTO_DELETE_HOURS * SECONDS_PER_HOUR}

RoomForms == FullForms({"alice"}, Rooms, {"secret1"}, {OTP_MIN})

NextRoom ==
    \/ \E d \in RoomTicks :
          /\ \E s \in Sessions : session_state[s].authenticated
          /\ Tick(d)
    \/ RequestOtp(1, "alice", OTP_MIN)
    \/ \E s \in Sessions, f \in RoomForms : LoginForm(s, f)
    \/ \E upl \in UploaderStates : runs < MaxRuns /\ Refresh(1, upl)
    \/ runs < MaxRuns /\ Refresh(2, NoUpload)
    \/ \E s \in Sessions, m \in Messages : runs < MaxRuns /\ SendMessage(s, NoUpload, m)
    \/ \E s \in Sessions : runs < MaxRuns /\ ClearFiles(s, NoUpload)
    \/ \E s \in Sessions : runs < MaxRuns /\ ClearChat(s, NoUpload)
    \/ \E s \in Sessions : runs < MaxRuns /\ Logout(s, NoUpload)

SpecRoom == Init /\ [][NextRoom]_vars

----------------------------------------------------------------------------
(* The retention sweep: one session in one room, its uploader, messages and *)
(* buttons, and the clock around the retention age once the room is open.   *)

SweepForms == FullForms({"alice"}, {"teamroom"}, {"secret1"}, {OTP_MIN})

NextSweep ==
    \/ \E d \in RoomTicks : session_state[1].authenticated /\ Tick(d)
    \/ RequestOtp(1, "alice", OTP_MIN)
    \/ \E f \in SweepForms : LoginForm(1, f)
    \/ \E upl \in UploaderStates : runs < MaxSweepRuns /\ Refresh(1, upl)
    \/ runs < MaxSweepRuns /\ SendMessage(1, NoUpload, <<"A">>)
    \/ runs < MaxSweepRuns /\ ClearFiles(1, NoUpload)
    \/ runs < MaxSweepRuns /\ Logout(1, NoUpload)

SpecSweep == Init /\ [][NextSweep]_vars

----------------------------------------------------------------------------
(* The room settings and the logout: session 1 in one room with an upload,  *)
(* a message sent with or without a file in the uploader, both clear        *)
(* buttons and the logout, its logins with either                           *)
(* password and either code; session 2 in the other room, where it sends a  *)
(* message; the clock advancing past the retention age.                     *)

AdminTicks == {AUTO_DELETE_HOURS * SECONDS_PER_HOUR + 1}

AdminForms == FullForms({"alice"}, {"teamroom"}, Passwords, OtpCodes)

OtherForms == FullForms({"alice"}, {"lab"}, {"secret1"}, {OTP_MIN})

AdminUploads == [name : {"x.txt", "y.txt"}, data : {"data1"}]

NextAdmin ==
    \/ \E d \in AdminTicks : session_state[1].authenticated /\ Tick(d)
    \/ RequestOtp(1, "alice", OTP_MIN)
    \/ \E f \in AdminForms : LoginForm(1, f)
    \/ \E f \in OtherForms : LoginForm(2, f)
    \/ \E upl \in AdminUploads : runs < MaxSweepRuns /\ Refresh(1, upl)
    \/ \E upl \in AdminUploads \cup {NoUpload} :
          runs < MaxSweepRuns /\ SendMessage(1, upl, <<"A">>)
    \/ runs < MaxSweepRuns /\ SendMessage(2, NoUpload, <<"A">>)
    \/ runs < MaxSweepRuns /\ ClearFiles(1, NoUpload)
    \/ runs < MaxSweepRuns /\ ClearChat(1, NoUpload)
    \/ runs < MaxSweepRuns /\ Logout(1, NoUpload)

SpecAdmin == Init /\ [][NextAdmin]_vars

----------------------------------------------------------------------------
(* The login run of lines 89-116 as the steps other sessions can interleave *)
(* with: the OTP check, the load of the credential table, its save, and the *)
(* entry into the room.                                                     *)

\* lines 89-96: the required fields and the OTP
LoginBegin(s, username, room, password, otp_input) ==
    LET check == portal_check(otp_cache, now, username, room, password, otp_input)
    IN  /\ steps < MaxSteps
        /\ pc[s] = "idle"
        /\ ~session_state[s].authenticated
        /\ steps' = steps + 1
        /\ IF check = "ok"
           THEN /\ pc' = [pc EXCEPT ![s] = "load"]
                /\ loc' = [loc EXCEPT ![s] =
                       [username |-> username, room |-> room, password |-> password,
                        room_passwords |-> NoTable, outcome |-> ""]]
                /\ last' = last
           ELSE /\ last' = Ran(s, "login", check, "", {}, <<>>)
                /\ UNCHANGED <<pc, loc>>
        /\ otp_cache' = portal_otps(otp_cache, now, username, room, password, otp_input)
        /\ UNCHANGED <<now, ticks, runs, room_passwords_file, dirs, files,
                       session_state, sent, created_with>>

\* lines 98-107: load_room_passwords(), makedirs, and the check of the loaded
\* table, which adds the room to it when the room is not in it
LoginLoad(s) ==
    LET room == loc[s].room
        outcome == room_check(room_passwords_file, room, loc[s].password)
    IN  /\ pc[s] = "load"
        /\ dirs' = dirs \cup {room}
        /\ IF outcome = "bad_password"
           THEN /\ pc' = [pc EXCEPT ![s] = "idle"]
                /\ loc' = [loc EXCEPT ![s] = IdleLocals]
                /\ last' = Ran(s, "login", outcome, "", {}, <<>>)
           ELSE /\ pc' = [pc EXCEPT ![s] =
                       IF outcome = "created" THEN "save" ELSE "enter"]
                /\ loc' = [loc EXCEPT ![s].outcome = outcome,
                                      ![s].room_passwords =
                              IF outcome = "created"
                              THEN with_room(room_passwords_file, room, loc[s].password)
                              ELSE room_passwords_file]
                /\ last' = last
        /\ UNCHANGED <<now, ticks, steps, runs, otp_cache, room_passwords_file, files,
                       session_state, sent, created_with>>

\* line 108: save_room_passwords(room_passwords) writes the local table
LoginSave(s) ==
    /\ pc[s] = "save"
    /\ room_passwords_file' = loc[s].room_passwords
    /\ created_with' = [r \in DOMAIN created_with \cup {loc[s].room} |->
                           IF r = loc[s].room THEN loc[s].password ELSE created_with[r]]
    /\ pc' = [pc EXCEPT ![s] = "enter"]
    /\ UNCHANGED <<now, ticks, steps, runs, otp_cache, dirs, files, session_state,
                   loc, last, sent>>

\* lines 111-113 and the first run of the room page
LoginEnter(s) ==
    /\ pc[s] = "enter"
    /\ EnterRoom(s, loc[s].username, loc[s].room, loc[s].outcome)
    /\ pc' = [pc EXCEPT ![s] = "idle"]
    /\ loc' = [loc EXCEPT ![s] = IdleLocals]
    /\ UNCHANGED <<now, ticks, steps, runs, otp_cache, room_passwords_file,
                   sent, created_with>>

LoginBeginForm(s, f) == LoginBegin(s, f.username, f.room, f.password, f.otp_input)

\* two sessions log in as alice with the code sent to her, or with another
\* code, to either room with either password
ConcForms == FullForms({"alice"}, Rooms, Passwords, {OTP_MIN})
             \cup FullForms({"alice"}, {"teamroom"}, {"secret1"}, {OTP_MAX})

NextConc ==
    \/ \E d \in AuthTicks : DOMAIN otp_cache # {} /\ Tick(d)
    \/ RequestOtp(1, "alice", OTP_MIN)
    \/ \E s \in Sessions, f \in ConcForms : LoginBeginForm(s, f)
    \/ \E s \in Sessions : LoginLoad(s)
    \/ \E s \in Sessions : LoginSave(s)
    \/ \E s \in Sessions : LoginEnter(s)
    \/ \E s \in Sessions : runs < MaxRuns /\ Logout(s, NoUpload)

SpecConc == Init /\ [][NextConc]_vars

----------------------------------------------------------------------------
(* A run of the room page as the steps other sessions can interleave with:  *)
(* the directory listing of the sweep, the age test and the removal of each *)
(* listed file, the upload, and the removals of "Clear all files".  A call  *)
(* on a file that is gone raises FileNotFoundError, which ends the run.     *)

\* the locals of a run of the room page: the button and the uploader's file,
\* `now` of cleanup_old_files, the names still to visit, the name at hand
PageLocals(room, trig, upl, t, todo) ==
    [room |-> room, trig |-> trig, upl |-> upl, t0 |-> t, todo |-> todo, fname |-> ""]

\* lines 119-126 and 61-62: the room setup, then now = datetime.now() and
\* os.listdir(folder); the loop skips chat.txt
PageBegin(s, trig, upl) ==
    LET room == session_state[s].room
        folder == ensure_chat_file(files[room], now)
    IN  /\ session_state[s].authenticated
        /\ pc[s] \in {"idle", "error_getmtime", "error_remove"}
        /\ runs' = runs + 1
        /\ dirs' = dirs \cup {room}
        /\ files' = [files EXCEPT ![room] = folder]
        /\ pc' = [pc EXCEPT ![s] = "sweep"]
        /\ loc' = [loc EXCEPT ![s] =
               PageLocals(room, trig, upl, now, DOMAIN folder \ {CHAT_TXT})]
        /\ UNCHANGED <<now, ticks, steps, otp_cache, room_passwords_file,
                       session_state, last, sent, created_with>>

\* line 66: os.path.getmtime(fpath) and the age test against `now` of line 61
SweepCheck(s, fname) ==
    LET folder == files[loc[s].room]
    IN  /\ pc[s] = "sweep"
        /\ fname \in loc[s].todo
        /\ IF fname \notin DOMAIN folder
           THEN /\ pc' = [pc EXCEPT ![s] = "error_getmtime"]
                /\ loc' = [loc EXCEPT ![s].fname = fname,
                                      ![s].todo = loc[s].todo \ {fname}]
           ELSE IF loc[s].t0 - folder[fname].mtime > AUTO_DELETE_HOURS * SECONDS_PER_HOUR
           THEN /\ pc' = [pc EXCEPT ![s] = "remove"]
                /\ loc' = [loc EXCEPT ![s].fname = fname,
                                      ![s].todo = loc[s].todo \ {fname}]
           ELSE /\ pc' = pc
                /\ loc' = [loc EXCEPT ![s].todo = loc[s].todo \ {fname}]
        /\ UNCHANGED <<now, ticks, steps, runs, otp_cache, room_passwords_file, dirs,
                       files, session_state, last, sent, created_with>>

\* line 67: os.remove(fpath)
SweepRemove(s) ==
    LET room == loc[s].room
    IN  /\ pc[s] = "remove"
        /\ IF loc[s].fname \in DOMAIN files[room]
           THEN /\ files' = [files EXCEPT ![room] = remove_files(files[room], {loc[s].fname})]
                /\ pc' = [pc EXCEPT ![s] = "sweep"]
           ELSE /\ files' = files
                /\ pc' = [pc EXCEPT ![s] = "error_remove"]
        /\ UNCHANGED <<now, ticks, steps, runs, otp_cache, room_passwords_file, dirs,
                       session_state, loc, last, sent, created_with>>

\* lines 140-149 and 200: the sweep's loop is over; the upload, the listing,
\* and the button, whose loop over the listing starts for "Clear all files"
PageUpload(s) ==
    LET room == loc[s].room
        folder == upload_section(files[room], loc[s].upl, now)
        listing == IF loc[s].trig = "clear_files" THEN listed_files(folder) ELSE {}
    IN  /\ pc[s] = "sweep"
        /\ loc[s].todo = {}
        /\ files' = [files EXCEPT ![room] = folder]
        /\ pc' = [pc EXCEPT ![s] = IF listing = {} THEN "idle" ELSE "clear"]
        /\ loc' = [loc EXCEPT ![s] =
               IF listing = {} THEN IdleLocals ELSE [loc[s] EXCEPT !.todo = listing]]
        /\ UNCHANGED <<now, ticks, steps, runs, otp_cache, room_passwords_file, dirs,
                       session_state, last, sent, created_with>>

\* lines 201-202: os.remove of one listed file
ClearRemove(s, fname) ==
    LET room == loc[s].room
        rest == loc[s].todo \ {fname}
    IN  /\ pc[s] = "clear"
        /\ fname \in loc[s].todo
        /\ IF fname \in DOMAIN files[room]
           THEN /\ files' = [files EXCEPT ![room] = remove_files(files[room], {fname})]
                /\ pc' = [pc EXCEPT ![s] = IF rest = {} THEN "idle" ELSE "clear"]
                /\ loc' = [loc EXCEPT ![s] =
                       IF rest = {} THEN IdleLocals ELSE [loc[s] EXCEPT !.todo = rest]]
           ELSE /\ files' = files
                /\ pc' = [pc EXCEPT ![s] = "error_remove"]
                /\ loc' = [loc EXCEPT ![s].fname = fname, ![s].todo = rest]
        /\ UNCHANGED <<now, ticks, steps, runs, otp_cache, room_passwords_file, dirs,
                       session_state, last, sent, created_with>>

\* two sessions in one room; a file is uploaded, the clock passes the
\* retention age, and both sessions refresh, re-upload or clear the files
RaceForms == FullForms({"alice"}, {"teamroom"}, {"secret1"}, {OTP_MIN})

RaceUpload == [name |-> "x.txt", data |-> "data1"]

NextRace ==
    \/ \E d \in AdminTicks :
          /\ \A s \in Sessions : session_state[s].authenticated
          /\ Tick(d)
    \/ RequestOtp(1, "alice", OTP_MIN)
    \/ \E s \in Sessions, f \in RaceForms : LoginForm(s, f)
    \/ \E s \in Sessions :
          runs < MaxSweepRuns /\ pc[s] = "idle" /\ Refresh(s, RaceUpload)
    \/ \E s \in Sessions, trig \in {"refresh", "clear_files"} :
          runs < MaxSweepRuns /\ PageBegin(s, trig, NoUpload)
    \/ \E s \in Sessions, fname \in {"x.txt"} : SweepCheck(s, fname)
    \/ \E s \in Sessions : SweepRemove(s)
    \/ \E s \in Sessions : PageUpload(s)
    \/ \E s \in Sessions, fname \in {"x.txt"} : ClearRemove(s, fname)

SpecRace == Init /\ [][NextRace]_vars

----------------------------------------------------------------------------
(* generate_otp as the steps other sessions can interleave with: the load   *)
(* of the OTP table and its save.                                           *)

\* lines 45-46: otp = str(random.randint(...)) and data = load_otps()
OtpLoad(s, username, code) ==
    /\ steps < MaxSteps
    /\ pc[s] = "idle"
    /\ ~session_state[s].authenticated
    /\ steps' = steps + 1
    /\ pc' = [pc EXCEPT ![s] = "otp_save"]
    /\ loc' = [loc EXCEPT ![s] = [username |-> username, code |-> code, data |-> otp_cache]]
    /\ UNCHANGED <<now, ticks, runs, otp_cache, room_passwords_file, dirs, files,
                   session_state, last, sent, created_with>>

\* lines 47-49: data[username] = {...}, save_otps(data), return otp
OtpSave(s) ==
    /\ pc[s] = "otp_save"
    /\ otp_cache' = generate_otp(loc[s].data, loc[s].username, loc[s].code, now)
    /\ sent' = [u \in DOMAIN sent \cup {loc[s].username} |->
                   IF u = loc[s].username
                   THEN [otp |-> str(loc[s].code), at |-> now] ELSE sent[u]]
    /\ last' = Ran(s, "request_otp", "otp_sent", "", {},
                   IF loc[s].username \in DOMAIN sent
                   THEN sent[loc[s].username].otp ELSE <<>>)
    /\ pc' = [pc EXCEPT ![s] = "idle"]
    /\ loc' = [loc EXCEPT ![s] = IdleLocals]
    /\ UNCHANGED <<now, ticks, steps, runs, room_passwords_file, dirs, files,
                   session_state, created_with>>

\* two sessions request codes for either user and log in with them
NextOtp ==
    \/ \E d \in AuthTicks : DOMAIN otp_cache # {} /\ Tick(d)
    \/ \E s \in Sessions, u \in Users, c \in OtpCodes : OtpLoad(s, u, c)
    \/ \E s \in Sessions : OtpSave(s)
    \/ \E s \in Sessions, f \in AuthForms : LoginForm(s, f)

SpecOtp == Init /\ [][NextOtp]_vars

----------------------------------------------------------------------------
(* Claims about the login protocol, checked under Spec *)

\* the form passes the OTP check: every field filled in, and the code is the
\* one last sent to the user, at most 300 seconds ago
PassesOtp(f) ==
    /\ f.username # "" /\ f.room # "" /\ f.password # "" /\ f.otp_input # <<>>
    /\ f.username \in DOMAIN sent
    /\ sent[f.username].otp = f.otp_input
    /\ now - sent[f.username].at <= 300

\* C1: a login that passes the OTP check creates an unknown room, storing the
\* hash of its password, and succeeds as Created; for a room created earlier
\* it is Verified with the password the room was created with, and Rejected
\* with any other password, the session staying unauthenticated.
C1_BootstrapOrVerify ==
    [][\A s \in Sessions, f \in AuthForms :
        last'.op = "login" /\ last'.session = s /\ PassesOtp(f) /\ LoginForm(s, f) =>
            IF f.room \notin DOMAIN created_with
            THEN /\ last'.outcome = "created"
                 /\ f.room \in DOMAIN room_passwords_file'
                 /\ room_passwords_file'[f.room] = hash_pw(f.password)
                 /\ session_state'[s].authenticated
            ELSE IF created_with[f.room] = f.password
            THEN /\ last'.outcome = "verified"
                 /\ room_passwords_file' = room_passwords_file
                 /\ session_state'[s].authenticated
            ELSE /\ last'.outcome = "bad_password"
                 /\ room_passwords_file' = room_passwords_file
                 /\ ~session_state'[s].authenticated]_vars

\* a room was created with one password, and a login with another one was
\* rejected
C1_Witness ==
    /\ last.op = "login" /\ last.outcome = "bad_password"
    /\ "teamroom" \in DOMAIN created_with
    /\ room_passwords_file["teamroom"] = hash_pw(created_with["teamroom"])

\* candidate codes a client may type: the codes the generator returns, the
\* empty string, a code with a leading zero and a code cut short
Candidates ==
    {Typed(c) : c \in OtpCodes}
    \cup {<<>>, <<0>> \o Typed(OTP_MIN), SubSeq(Typed(OTP_MIN), 1, 5)}

\* C3: while the code last returned to a user is at most 300 seconds old,
\* validate_otp accepts for that user exactly the candidates equal to it;
\* for a username with no record it accepts nothing.
C3_IssuedCodeValidates ==
    \A u \in Users \cup {""}, x \in Candidates :
        /\ u \in DOMAIN sent /\ now - sent[u].at <= 300
              => (validate_otp(otp_cache, now, u, x) <=> x = sent[u].otp)
        /\ u \notin DOMAIN otp_cache => ~validate_otp(otp_cache, now, u, x)

\* a login went through on a code still in its window, while the other user
\* has no record
C3_Witness ==
    /\ last.op = "login" /\ last.outcome = "created"
    /\ \E u \in Users :
          /\ DOMAIN otp_cache = {u}
          /\ session_state[last.session].username = u
          /\ now - sent[u].at <= 300

\* C4: the code last returned to a user validates exactly while it is at most
\* 300 seconds old, 300 included; once it has expired it does not validate
\* again unless a new code is issued for the user.
C4_ExpiresAfterWindow ==
    /\ [](\A u \in DOMAIN sent :
            validate_otp(otp_cache, now, u, sent[u].otp) <=> now - sent[u].at <= 300)
    /\ [][\A u \in DOMAIN sent :
            ~validate_otp(otp_cache, now, u, sent[u].otp) /\ sent'[u] = sent[u]
                => ~validate_otp(otp_cache', now', u, sent[u].otp)]_vars

\* a login went through on a code exactly 300 seconds old
C4_Witness ==
    /\ last.op = "login" /\ last.outcome = "created"
    /\ \E u \in Users :
          /\ DOMAIN sent = {u}
          /\ now - sent[u].at = 300

\* C5 as claimed: after a second generate_otp for the same user the second
\* code validates and the first does not, whatever the two codes are.
C5_SecondInvalidatesFirst ==
    [][\A s \in Sessions, u \in Users, c \in OtpCodes :
        u \in DOMAIN sent /\ RequestOtp(s, u, c) =>
            /\ validate_otp(otp_cache', now', u, Typed(c))
            /\ ~validate_otp(otp_cache', now', u, sent[u].otp)]_vars

\* C5 as amended: after a second generate_otp for the same user the second
\* code validates and no other candidate does, so the first code does not
\* validate unless the generator returned the same code twice.
C5_OnlySecondValidates ==
    [][\A s \in Sessions, u \in Users, c \in OtpCodes :
        u \in DOMAIN sent /\ sent' # sent /\ RequestOtp(s, u, c) =>
            \A x \in Candidates :
                validate_otp(otp_cache', now', u, x) <=> x = Typed(c)]_vars

\* a second code was issued that differs from the one it replaced
C5_Witness ==
    /\ last.op = "request_otp"
    /\ last.replaced # <<>>
    /\ \E u \in DOMAIN sent : sent[u].at = now /\ sent[u].otp # last.replaced

\* the login fails on the form: a required field is empty, the OTP is not
\* the one last sent to the user or is older than 300 seconds, or the room
\* was created with another password
FailsOn(f) ==
    \/ ~PassesOtp(f)
    \/ f.room \in DOMAIN created_with /\ created_with[f.room] # f.password

\* C8: a login that fails leaves the credential table, the OTP table, every
\* room's files and transcript and the set of room directories as they were,
\* and the session unauthenticated.
C8_FailedLoginChangesNothing ==
    [][\A s \in Sessions, f \in AuthForms :
        last'.op = "login" /\ last'.session = s /\ FailsOn(f) /\ LoginForm(s, f) =>
            /\ room_passwords_file' = room_passwords_file
            /\ otp_cache' = otp_cache
            /\ files' = files
            /\ dirs' = dirs
            /\ ~session_state'[s].authenticated
            /\ last'.outcome \in {"required", "bad_otp", "bad_password"}]_vars

\* a login failed on a missing field while a room and an OTP record exist
C8_Witness ==
    /\ last.op = "login" /\ last.outcome = "required"
    /\ dirs # {} /\ DOMAIN otp_cache # {} /\ DOMAIN room_passwords_file # {}

\* C11: a login, passing or failing, leaves the OTP table as it was, so the
\* code of a form that passed the OTP check still validates right after the
\* login, and one code serves more than one successful login.
C11_ValidateKeepsTable ==
    [][\A s \in Sessions, f \in AuthForms :
        last'.op = "login" /\ last'.session = s /\ LoginForm(s, f) =>
            /\ otp_cache' = otp_cache
            /\ PassesOtp(f) => validate_otp(otp_cache', now', f.username, f.otp_input)]_vars

\* both sessions are logged in as the same user after three portal runs: one
\* OTP request and two logins on the one code
C11_Witness ==
    /\ steps = 3
    /\ \A s \in Sessions : session_state[s].authenticated
    /\ session_state[1].username = session_state[2].username
    /\ last.op = "login" /\ last.outcome = "verified"

----------------------------------------------------------------------------
(* Claims about the steps of the login run, checked under SpecConc *)

\* C2: a session becomes authenticated only by the entry step of its own
\* login run, which it reaches only after its form passed the OTP check and
\* then the room's credential was created from, or verified against, the
\* password of the form; a form that fails the OTP check and a password that
\* does not match end the run unauthenticated; the credential table is read
\* and written only by a run whose OTP check has passed.
C2_AuthenticatedOnlyThroughGate ==
    [][/\ \A s \in Sessions :
            ~session_state[s].authenticated /\ session_state'[s].authenticated =>
                /\ pc[s] = "enter" /\ pc'[s] = "idle"
                /\ session_state'[s].username = loc[s].username
                /\ session_state'[s].room = loc[s].room
       /\ \A s \in Sessions, f \in ConcForms :
            steps' # steps /\ LoginBeginForm(s, f) =>
                IF PassesOtp(f)
                THEN /\ pc'[s] = "load"
                     /\ loc'[s].username = f.username
                     /\ loc'[s].room = f.room
                     /\ loc'[s].password = f.password
                ELSE /\ pc'[s] = "idle"
                     /\ ~session_state'[s].authenticated
                     /\ last'.outcome \in {"required", "bad_otp"}
       /\ \A s \in Sessions :
            pc[s] = "idle" /\ pc'[s] # "idle" =>
                \E f \in ConcForms : LoginBeginForm(s, f) /\ PassesOtp(f)
       /\ \A s \in Sessions :
            pc[s] # "enter" /\ pc'[s] = "enter" =>
                \/ /\ pc[s] = "load"
                   /\ loc[s].room \in DOMAIN room_passwords_file
                   /\ room_passwords_file[loc[s].room] = hash_pw(loc[s].password)
                \/ /\ pc[s] = "save"
                   /\ room_passwords_file'[loc[s].room] = hash_pw(loc[s].password)
       /\ \A s \in Sessions :
            /\ pc[s] = "load"
            /\ loc[s].room \in DOMAIN room_passwords_file
            /\ room_passwords_file[loc[s].room] # hash_pw(loc[s].password)
            /\ LoginLoad(s)
            => /\ pc'[s] = "idle"
               /\ ~session_state'[s].authenticated
               /\ last'.outcome = "bad_password"
       /\ room_passwords_file' # room_passwords_file => \E s \in Sessions : pc[s] = "save"
       /\ \A s \in Sessions :
            loc'[s].room_passwords # loc[s].room_passwords => pc[s] \in {"load", "enter"}
      ]_vars

\* a session entered an existing room after its password was verified
C2_Witness ==
    /\ last.op = "login" /\ last.outcome = "verified"
    /\ session_state[last.session].authenticated
    /\ session_state[last.session].room \in DOMAIN room_passwords_file

\* C9 as claimed: a credential, once in the table, stays in it unchanged,
\* with the loads and saves of the sessions' login runs interleaved.
C9_CredentialNeverChanges ==
    [][\A r \in DOMAIN room_passwords_file :
        /\ r \in DOMAIN room_passwords_file'
        /\ room_passwords_file'[r] = room_passwords_file[r]]_vars

\* C16 as claimed: when a session becomes authenticated for a room that has
\* a credential, the credential is the hash of the password of the session's
\* form, with the loads and saves of the sessions' login runs interleaved.
C16_EnteredWithStoredCredential ==
    [][\A s \in Sessions :
        /\ ~session_state[s].authenticated /\ session_state'[s].authenticated
        /\ loc[s].room \in DOMAIN room_passwords_file'
        => room_passwords_file'[loc[s].room] = hash_pw(loc[s].password)]_vars

----------------------------------------------------------------------------
(* Claims about the steps of generate_otp, checked under SpecOtp *)

\* C18 as claimed: once every call of generate_otp has returned, the code
\* last returned to each user validates for that user while it is at most
\* 300 seconds old, with the loads and saves of the calls interleaved.
C18_EachReturnedCodeValidates ==
    (\A s \in Sessions : pc[s] = "idle") =>
        \A u \in DOMAIN sent :
            now - sent[u].at <= 300 => validate_otp(otp_cache, now, u, sent[u].otp)

----------------------------------------------------------------------------
(* Claims about the retention sweep, checked under SpecSweep *)

\* the age of a file of a folder, in seconds
Age(folder, fname) == now - folder[fname].mtime

\* the state of a room's folder when cleanup_old_files is called in a run of
\* the room page: chat.txt has just been created if it was missing
AtSweep(r) == ensure_chat_file(files[r], now)

\* C6: the sweep of a run of the room page removes exactly the files other
\* than chat.txt that are older than 12 hours: after a refresh with no
\* upload, a file aged 12 hours or less is there unchanged, a file aged more
\* is gone, nothing has appeared, and chat.txt is there with its content,
\* whatever its age.
C6_SweepRemovesExactlyStale ==
    [][/\ \A s \in Sessions :
            Refresh(s, NoUpload) =>
                LET r == session_state[s].room
                    before == AtSweep(r)
                    after == files'[r]
                IN  /\ DOMAIN after \subseteq DOMAIN before
                    /\ \A n \in DOMAIN before \ {CHAT_TXT} :
                          IF Age(before, n) > 12 * 3600
                          THEN n \notin DOMAIN after
                          ELSE n \in DOMAIN after /\ after[n] = before[n]
                    /\ CHAT_TXT \in DOMAIN after
                    /\ after[CHAT_TXT] = before[CHAT_TXT]
       /\ last'.room # "" /\ last' # last =>
            last'.evicted = {n \in DOMAIN files[last'.room] \ {CHAT_TXT} :
                                Age(files[last'.room], n) > 12 * 3600}
      ]_vars

\* a refresh has removed a file while chat.txt, older than 12 hours as well,
\* is still there
C6_Witness ==
    /\ last.op = "refresh" /\ last.outcome = "" /\ last.evicted # {}
    /\ CHAT_TXT \in DOMAIN files[last.room]
    /\ Age(files[last.room], CHAT_TXT) > 12 * 3600

\* C7: the sweep is idempotent: applied to a folder it has just been applied
\* to, it removes nothing and returns the same folder; and a run of the room
\* page that directly follows a run on the same room, with no clock advance
\* in between, evicts nothing, a refresh with no upload leaving every room
\* as it was.
C7_SweepIdempotent ==
    /\ [](\A r \in Rooms :
            LET once == cleanup_old_files(AtSweep(r), now)
            IN  /\ expired_files(once, now) = {}
                /\ cleanup_old_files(once, now) = once)
    /\ [][\A s \in Sessions, upl \in UploaderStates :
            Refresh(s, upl) /\ last.room = session_state[s].room =>
                /\ last'.evicted = {}
                /\ upl = NoUpload => files' = files]_vars

\* a refresh directly followed a run of the room page on the same room
\* whose sweep had removed a file
C7_Witness ==
    /\ last.op = "refresh" /\ last.outcome = ""
    /\ last.prev_room = last.room
    /\ last.prev_evicted # {}
    /\ last.evicted = {}

C17_UploadKeepsTranscript ==
    [][\A upl \in Uploads :
        last'.outcome = "uploaded" /\ Refresh(1, upl) =>
            /\ Transcript(session_state[1].room)' = Transcript(session_state[1].room)
            /\ upl.name \in listed_files(files'[session_state[1].room])]_vars

\* what holds of the code: the same for every name but chat.txt
C17_ButForChatTxt ==
    [][\A upl \in Uploads :
        last'.outcome = "uploaded" /\ upl.name # CHAT_TXT /\ Refresh(1, upl) =>
            /\ Transcript(session_state[1].room)' = Transcript(session_state[1].room)
            /\ upl.name \in listed_files(files'[session_state[1].room])]_vars

----------------------------------------------------------------------------
(* Claims about the room settings and the logout, checked under SpecAdmin *)

\* what a run of the room page leaves alone, whatever button was clicked:
\* both tables, the files of the other rooms, and the other session
FrameOfRun(s) ==
    /\ room_passwords_file' = room_passwords_file
    /\ otp_cache' = otp_cache
    /\ \A r \in Rooms \ {session_state[s].room} : files'[r] = files[r]
    /\ \A o \in Sessions \ {s} : session_state'[o] = session_state[o]

\* the files of a folder other than chat.txt that are not older than 12 hours
Fresh(folder) ==
    {n \in DOMAIN folder \ {CHAT_TXT} : Age(folder, n) <= 12 * 3600}

PassesPassword(f) ==
    f.room \in DOMAIN room_passwords_file =>
        room_passwords_file[f.room] = hash_pw(f.password)

----------------------------------------------------------------------------
(* Claims about the interleaved runs of the room page, checked under SpecRace *)

\* C15 as claimed: the file a sweep removes is older than 12 hours at the
\* moment os.remove removes it, whatever other sessions did since the sweep
\* tested its age.
C15_SweepDeletesOnlyStale ==
    [][\A s \in Sessions :
        pc[s] = "remove" /\ pc'[s] = "sweep" =>
            Age(files[loc[s].room], loc[s].fname) > 12 * 3600]_vars

\* C19 as claimed: no run of the room page ends in the error os.remove
\* raises for a file that is gone.
C19_NoRemoveOfMissingFile == \A s \in Sessions : pc[s] # "error_remove"

----------------------------------------------------------------------------
(* Claims about the transcript, checked under SpecRoom *)

IsPrefix(a, b) == Len(a) <= Len(b) /\ SubSeq(b, 1, Len(a)) = a

\* C10 as claimed: a message sent is appended as one whole line after all
\* earlier lines, and but for a run that clears the chat log every step
\* leaves each room's earlier transcript as a prefix of the later one.
C10_TranscriptKeepsOrder ==
    [][/\ \A s \in Sessions, m \in Messages :
            SendMessage(s, NoUpload, m) =>
                Transcript(session_state[s].room)' =
                    Append(Transcript(session_state[s].room),
                           chat_line(now, session_state[s].username, m))
       /\ \A r \in Rooms :
            ~(last'.op = "clear_chat" /\ last'.room = r) =>
                IsPrefix(Transcript(r), Transcript(r)')]_vars

\* what holds of the code: the same, but for a run whose uploader holds a
\* file named chat.txt, which replaces the transcript by the file's bytes
C10_ButForUploadNamedChat ==
    [][\A r \in Rooms :
        /\ ~(last'.op = "clear_chat" /\ last'.room = r)
        /\ \A s \in Sessions, upl \in Uploads :
              upl.name = CHAT_TXT /\ session_state[s].room = r => ~Refresh(s, upl)
        => IsPrefix(Transcript(r), Transcript(r)')]_vars

====
